---- MODULE Spec2Model ----
(***************************************************************************)
(* A cluster of Machine objects (prior_distributed_machine.py) exchanging  *)
(* Lamport timestamps over unframed TCP byte streams.  Every Machine runs  *)
(* a main thread (constructor, run loop, shutdown), one accept thread and  *)
(* one receive_messages thread per accepted connection.                    *)
(***************************************************************************)
EXTENDS Integers, Sequences, FiniteSets, TLC

\* ------------------------------------------------------------------ bounds
\* Ticks a machine executes at most before its run_time has expired.
MaxTicks == 2
\* Bytes that fit in the socket buffers of one connection (sendall blocks beyond).
MaxBuf == 3
\* The same in the wire scenario, where two records can be in flight at once.
WireBuf == 8
\* Writes a remote peer performs at most on its connection to a machine.
MaxPeerWrites == 2
\* Largest clock value a remote peer encodes in the wire scenario.
MaxEncClock == 120
\* Longest byte string that is no record a remote peer writes in the wire scenario.
MaxRaw == 3

\* --------------------------------------------------------- program constants
max_retries == 5
RecvSize == 1024

\* ------------------------------------------------------------ configuration
\* The three endpoints of the cluster.  An endpoint is either a process running
\* the Machine class or a remote peer of which only the sockets are seen.
Machines == {1, 2, 3}
Conns == Machines \X Machines

listen_host(m) == IF m = 3 THEN "h2" ELSE "h1"
listen_port(m) == IF m = 2 THEN 5002 ELSE 5001
ListenAddr(m) == <<listen_host(m), listen_port(m)>>
ListenerAt(addr) == CHOOSE t \in Machines : ListenAddr(t) = addr

\* ------------------------------------------------------------- wire codec
DigitChars == <<"0", "1", "2", "3", "4", "5", "6", "7", "8", "9">>
DigitSet == {DigitChars[i] : i \in 1..10}
WhiteSpace == {" "}
DigitVal(ch) == (CHOOSE i \in 1..10 : DigitChars[i] = ch) - 1

Min(a, b) == IF a < b THEN a ELSE b

RECURSIVE ToStr(_)
\* str(n) of a non-negative integer: its decimal digits, most significant first.
ToStr(n) ==
    IF n < 10 THEN <<DigitChars[n + 1]>>
    ELSE ToStr(n \div 10) \o <<DigitChars[(n % 10) + 1]>>

\* A format string with its two fields swapped.
EncodeSwapped(clock, id) == ToStr(id) \o <<":">> \o ToStr(clock)
\* f"{self.logical_clock}:{self.machine_id}"
Encode(clock, id) == ToStr(clock) \o <<":">> \o ToStr(id)

RECURSIVE LStrip(_)
LStrip(s) == IF s # <<>> /\ Head(s) \in WhiteSpace THEN LStrip(Tail(s)) ELSE s
RECURSIVE RStrip(_)
RStrip(s) ==
    IF s # <<>> /\ s[Len(s)] \in WhiteSpace THEN RStrip(SubSeq(s, 1, Len(s) - 1)) ELSE s
\* str.strip()
Strip(s) == RStrip(LStrip(s))

RECURSIVE FirstField(_)
\* msg_str.split(":")[0]: the text before the first ':' (all of it if there is none).
FirstField(s) ==
    IF s = <<>> \/ Head(s) = ":" THEN <<>> ELSE <<Head(s)>> \o FirstField(Tail(s))

RECURSIVE DigitsVal(_)
DigitsVal(s) ==
    IF s = <<>> THEN 0
    ELSE DigitsVal(SubSeq(s, 1, Len(s) - 1)) * 10 + DigitVal(s[Len(s)])

\* int(text): surrounding whitespace and one sign allowed, then decimal digits
\* only; anything else raises ValueError (ok = FALSE).
PyInt(s) ==
    LET t == Strip(s)
        signed == t # <<>> /\ Head(t) \in {"-", "+"}
        body == IF signed THEN Tail(t) ELSE t
        ok == body # <<>> /\ \A i \in 1..Len(body) : body[i] \in DigitSet
    IN  [ok |-> ok,
         val |-> IF ~ok THEN 0
                 ELSE IF signed /\ Head(t) = "-" THEN 0 - DigitsVal(body)
                 ELSE DigitsVal(body)]

\* Lines 103-107: decode one chunk returned by recv.
Decode(chars) == PyInt(FirstField(Strip(chars)))

\* The characters of a chunk of tagged bytes.
Chars(bytes) == [i \in 1..Len(bytes) |-> bytes[i].ch]
\* The bytes of one record written by the send whose clock value is L.
Tagged(chars, L) == [i \in 1..Len(chars) |-> [ch |-> chars[i], L |-> L]]

\* ------------------------------------------------------------------ clock
Max(a, b) == IF a > b THEN a ELSE b
\* A receive rule that forgets the machine's own clock.
LamportReceiveTheirs(current, theirValue) == theirValue + 1
\* self.logical_clock = max(self.logical_clock, their_clock) + 1
LamportReceive(current, theirValue) == Max(current, theirValue) + 1
\* A local event that advances the clock by two.
AdvanceLocalTwice(current) == current + 2
\* A local event that leaves the clock as it is.
AdvanceLocalNot(current) == current
\* self.logical_clock += 1
AdvanceLocal(current) == current + 1

\* ------------------------------------------------------------ queue.Queue
\* An emptiness test that is off by one.
QueueEmptyOffByOne(q) == Len(q) <= 1
\* msg_queue.empty()
QueueEmpty(q) == Len(q) = 0
\* A put that makes room by dropping the oldest item.
QueuePutDropOldest(q, item) == IF q = <<>> THEN <<item>> ELSE Append(Tail(q), item)
\* msg_queue.put(item)
QueuePut(q, item) == Append(q, item)
\* A get that returns the newest item.
QueueNewest(q) == q[Len(q)]
\* msg_queue.get(): the item returned, and what stays queued
QueueFront(q) == Head(q)
\* A get that discards the item behind the one it returns.
QueueRestTwo(q) == IF Len(q) >= 2 THEN Tail(Tail(q)) ELSE Tail(q)
\* A get that leaves the item on the queue.
QueueRestAll(q) == q
QueueRest(q) == Tail(q)

\* ------------------------------------------------------------------ state
VARIABLES
    role,           \* "machine": a process running the Machine class; "peer": a
                    \* remote endpoint that dials in and writes; "listener": a
                    \* remote endpoint that only accepts connections
    peer_info,      \* the parsed --peers list, a sequence of (host, port)
    pc,             \* main thread: off, connect, try, loop, recv_get, recv_log,
                    \* draw, done
    peer_idx,       \* connect_to_peers: index into peer_info
    attempt,        \* connect_to_peers: the loop variable `attempt`
    logical_clock,
    msg_queue,      \* items [val]; src, n, sent are history tags of the item
    peer_sockets,   \* dict keys (host, port) in insertion order
    log,            \* lines written to the log file: [kind, L, queue]
    log_open,       \* the log file is open
    ticks,          \* loop iterations completed
    depth_at_check, \* history: queue depth seen by the tick's empty() check
    sent_to,        \* history: the send_message calls of the last tick, each the
                    \* peer whose socket was passed and the msg_str built
    send_err,       \* peers whose send raised in the machine's last tick (stderr)
    server,         \* server_socket: none, listening, closed
    backlog,        \* connections completed by the kernel, not yet accepted
    accept_thread,  \* none, running, stopped
    sock_out,       \* connecting end of each connection: none, open, closed, reset
    sock_in,        \* accepted end: none, pending, open, closed, reset
    stream,         \* bytes sent and not yet read, each tagged with its send
    enq_n,          \* history: items the connection's worker has enqueued
    deq_n,          \* history: items of the connection dequeued by the loop
    peer_writes,    \* writes a remote peer has done on its connection
    last_chunk      \* history: the characters recv returned last on the connection

vars == <<role, peer_info, pc, peer_idx, attempt, logical_clock, msg_queue,
          peer_sockets, log, log_open, ticks, depth_at_check, sent_to, send_err,
          server, backlog, accept_thread, sock_out, sock_in, stream, enq_n,
          deq_n, peer_writes, last_chunk>>

\* What never changes after the processes were launched.
config == <<role, peer_info>>
\* The fields only the main thread of a machine writes.
mainVars == <<pc, peer_idx, attempt, logical_clock, peer_sockets, log, log_open,
              ticks, depth_at_check, sent_to, send_err>>
\* History of the receive path.
recvHist == <<enq_n, deq_n, last_chunk>>

\* ---------------------------------------------------------------- helpers
Range(s) == {s[i] : i \in 1..Len(s)}

\* self.peer_sockets[(phost, pport)] = sock: a new key goes last, an old key
\* keeps its place.
DictSet(keys, k) == IF k \in Range(keys) THEN keys ELSE Append(keys, k)

\* log_event: the line written, without its wall-clock time.  queue is <<>>
\* when queue_len is None, else <<queue_len>>.
LogLine(kind, L, queue) == [kind |-> kind, L |-> L, queue |-> queue]

\* if (phost == self.listen_host and pport == self.listen_port): continue
\* A self check that compares the port only.
IsSelfPort(m, addr) == addr[2] = listen_port(m)
\* if (phost == self.listen_host and pport == self.listen_port): continue
IsSelf(m, addr) == addr[1] = listen_host(m) /\ addr[2] = listen_port(m)

\* if attempt < max_retries: time.sleep(1), and the for loop tries again
\* A retry test that allows one attempt too many.
RetryAgainInclusive(n) == n <= max_retries
\* if attempt < max_retries: sleep and go round again
RetryAgain(n) == n < max_retries

\* Every process is still to be launched.
Blank ==
    /\ pc = [m \in Machines |-> "off"]
    /\ peer_idx = [m \in Machines |-> 1]
    /\ attempt = [m \in Machines |-> 0]
    /\ logical_clock = [m \in Machines |-> 0]
    /\ msg_queue = [m \in Machines |-> <<>>]
    /\ peer_sockets = [m \in Machines |-> <<>>]
    /\ log = [m \in Machines |-> <<>>]
    /\ log_open = [m \in Machines |-> FALSE]
    /\ ticks = [m \in Machines |-> 0]
    /\ depth_at_check = [m \in Machines |-> 0]
    /\ sent_to = [m \in Machines |-> {}]
    /\ send_err = [m \in Machines |-> {}]
    /\ server = [m \in Machines |-> "none"]
    /\ backlog = [m \in Machines |-> <<>>]
    /\ accept_thread = [m \in Machines |-> "none"]
    /\ sock_out = [c \in Conns |-> "none"]
    /\ sock_in = [c \in Conns |-> "none"]
    /\ stream = [c \in Conns |-> <<>>]
    /\ enq_n = [c \in Conns |-> 0]
    /\ deq_n = [c \in Conns |-> 0]
    /\ peer_writes = [c \in Conns |-> 0]
    /\ last_chunk = [c \in Conns |-> <<>>]

\* The orders in which the connections of the senders S can have arrived.
Perms(S) == {q \in [1..Cardinality(S) -> S] : Range(q) = S}

\* The state in which the constructors of all machines have returned, `made`
\* being the connections established meanwhile (by connect_to_peers, or by a
\* remote peer that dialled in): each waits in the backlog of its listener and
\* those a machine made are in its dict; INIT is the only log line and no tick
\* has run.
Constructed(made) ==
    /\ pc = [m \in Machines |-> IF role[m] = "machine" THEN "loop" ELSE "off"]
    /\ peer_idx = [m \in Machines |-> Len(peer_info[m]) + 1]
    /\ attempt = [m \in Machines |-> 0]
    /\ logical_clock = [m \in Machines |-> 0]
    /\ msg_queue = [m \in Machines |-> <<>>]
    /\ peer_sockets = [m \in Machines |->
                         SelectSeq(peer_info[m],
                                   LAMBDA a : <<m, ListenerAt(a)>> \in made)]
    /\ log = [m \in Machines |->
                IF role[m] = "machine" THEN <<LogLine("INIT", 0, <<>>)>> ELSE <<>>]
    /\ log_open = [m \in Machines |-> role[m] = "machine"]
    /\ ticks = [m \in Machines |-> 0]
    /\ depth_at_check = [m \in Machines |-> 0]
    /\ sent_to = [m \in Machines |-> {}]
    /\ send_err = [m \in Machines |-> {}]
    /\ server = [m \in Machines |->
                   IF role[m] = "machine" \/ \E c \in made : c[2] = m
                   THEN "listening" ELSE "none"]
    /\ backlog \in {b \in [Machines -> UNION {Perms(S) : S \in SUBSET Machines}] :
                      \A t \in Machines :
                         b[t] \in Perms({c[1] : c \in {d \in made : d[2] = t}})}
    /\ accept_thread = [m \in Machines |->
                          IF role[m] = "machine" THEN "running" ELSE "none"]
    /\ sock_out = [c \in Conns |-> IF c \in made THEN "open" ELSE "none"]
    /\ sock_in = [c \in Conns |-> IF c \in made THEN "pending" ELSE "none"]
    /\ stream = [c \in Conns |-> <<>>]
    /\ enq_n = [c \in Conns |-> 0]
    /\ deq_n = [c \in Conns |-> 0]
    /\ peer_writes = [c \in Conns |-> 0]
    /\ last_chunk = [c \in Conns |-> <<>>]

\* The --peers list of the machine of the one-machine scenarios: itself and
\* the two remote endpoints.
PeersOfOne == <<ListenAddr(1), ListenAddr(2), ListenAddr(3)>>

\* One machine; endpoint 2 only listens, endpoint 3 also dials in.
OneMachine ==
    /\ role = [m \in Machines |->
                 CASE m = 1 -> "machine" [] m = 2 -> "listener" [] OTHER -> "peer"]
    /\ peer_info = [m \in Machines |-> IF m = 1 THEN PeersOfOne ELSE <<>>]

\* One machine that reached nobody, and two remote endpoints that dial in.
FanIn ==
    /\ role = [m \in Machines |-> IF m = 1 THEN "machine" ELSE "peer"]
    /\ peer_info = [m \in Machines |-> IF m = 1 THEN PeersOfOne ELSE <<>>]

\* Two machines launched as mutual peers; the third endpoint stays silent.
TwoMachines ==
    /\ role = [m \in Machines |-> IF m = 3 THEN "listener" ELSE "machine"]
    /\ peer_info = [m \in Machines |->
                      CASE m = 1 -> <<ListenAddr(2)>>
                        [] m = 2 -> <<ListenAddr(1)>>
                        [] OTHER -> <<>>]

\* The --peers lists of the peer-list scenario: one entry or more, each the
\* address of one of the three endpoints, none twice.
PeerLists ==
    {l \in UNION {[1..n -> {ListenAddr(t) : t \in Machines}] : n \in 1..3} :
        \A i, j \in 1..Len(l) : i # j => l[i] # l[j]}

\* One machine given any of these lists.
AnyPeerList ==
    /\ role = [m \in Machines |->
                 CASE m = 1 -> "machine" [] m = 2 -> "listener" [] OTHER -> "peer"]
    /\ peer_info \in {[m \in Machines |-> IF m = 1 THEN l ELSE <<>>] : l \in PeerLists}

\* The machine is about to be constructed with any peer list.
InitPeerLists == AnyPeerList /\ Blank

\* The machine is about to be constructed.
InitStartup == OneMachine /\ Blank

\* The machine was constructed; each remote endpoint was reached or given up.
Init == OneMachine /\ \E made \in SUBSET {<<1, 2>>, <<1, 3>>} : Constructed(made)

\* The machine was constructed and gave up both remote endpoints, which have
\* dialled in meanwhile.
InitFanIn == FanIn /\ Constructed({<<2, 1>>, <<3, 1>>})

\* The machine was constructed and endpoint 3 has dialled in.
InitWire == OneMachine /\ Constructed({<<3, 1>>})

\* Both machines were constructed and reached each other.
InitPair == TwoMachines /\ Constructed({<<1, 2>>, <<2, 1>>})

\* ------------------------------------------------- constructor (main thread)
\* __init__ lines 10-50: state, log file, listening socket, accept thread.
Start(m) ==
    /\ role[m] = "machine"
    /\ pc[m] = "off"
    /\ pc' = [pc EXCEPT ![m] = "connect"]
    /\ log_open' = [log_open EXCEPT ![m] = TRUE]
    /\ server' = [server EXCEPT ![m] = "listening"]
    /\ accept_thread' = [accept_thread EXCEPT ![m] = "running"]
    /\ UNCHANGED <<config, peer_idx, attempt, logical_clock, msg_queue,
                   peer_sockets, log, ticks, depth_at_check, send_err, sent_to, backlog,
                   sock_out, sock_in, stream, recvHist, peer_writes>>

\* connect_to_peers: the entry is the machine's own address, `continue`.
ConnectSkipSelf(m) ==
    /\ pc[m] = "connect"
    /\ peer_idx[m] <= Len(peer_info[m])
    /\ IsSelf(m, peer_info[m][peer_idx[m]])
    /\ peer_idx' = [peer_idx EXCEPT ![m] = @ + 1]
    /\ UNCHANGED <<config, pc, attempt, logical_clock, msg_queue, peer_sockets,
                   log, log_open, ticks, depth_at_check, send_err, sent_to, server,
                   backlog, accept_thread, sock_out, sock_in, stream, recvHist,
                   peer_writes>>

\* connect_to_peers: the entry is another address, the retry loop is entered
\* with attempt = 1.
ConnectBegin(m) ==
    /\ pc[m] = "connect"
    /\ peer_idx[m] <= Len(peer_info[m])
    /\ ~IsSelf(m, peer_info[m][peer_idx[m]])
    /\ attempt' = [attempt EXCEPT ![m] = 1]
    /\ pc' = [pc EXCEPT ![m] = "try"]
    /\ UNCHANGED <<config, peer_idx, logical_clock, msg_queue, peer_sockets, log,
                   log_open, ticks, depth_at_check, send_err, sent_to, server, backlog,
                   accept_thread, sock_out, sock_in, stream, recvHist,
                   peer_writes>>

\* connect_to_peers: sock.connect succeeds (the peer is listening), `break`.
ConnectOk(m) ==
    /\ pc[m] = "try"
    /\ LET addr == peer_info[m][peer_idx[m]]
           t == ListenerAt(addr)
       IN  /\ server[t] = "listening"
           /\ sock_out' = [sock_out EXCEPT ![<<m, t>>] = "open"]
           /\ sock_in' = [sock_in EXCEPT ![<<m, t>>] = "pending"]
           /\ backlog' = [backlog EXCEPT ![t] = Append(@, m)]
           /\ peer_sockets' = [peer_sockets EXCEPT ![m] = DictSet(@, addr)]
    /\ peer_idx' = [peer_idx EXCEPT ![m] = @ + 1]
    /\ pc' = [pc EXCEPT ![m] = "connect"]
    /\ UNCHANGED <<config, attempt, logical_clock, msg_queue, log, log_open,
                   ticks, depth_at_check, send_err, sent_to, server, accept_thread,
                   stream, recvHist, peer_writes>>

\* connect_to_peers: sock.connect raises (nobody listens at the address); the
\* loop sleeps and tries again, or has used its last attempt.
ConnectFail(m) ==
    /\ pc[m] = "try"
    /\ server[ListenerAt(peer_info[m][peer_idx[m]])] # "listening"
    /\ IF RetryAgain(attempt[m])
       THEN /\ attempt' = [attempt EXCEPT ![m] = @ + 1]
            /\ UNCHANGED <<pc, peer_idx>>
       ELSE /\ peer_idx' = [peer_idx EXCEPT ![m] = @ + 1]
            /\ pc' = [pc EXCEPT ![m] = "connect"]
            /\ UNCHANGED attempt
    /\ UNCHANGED <<config, logical_clock, msg_queue, peer_sockets, log, log_open,
                   ticks, depth_at_check, send_err, sent_to, server, backlog,
                   accept_thread, sock_out, sock_in, stream, recvHist,
                   peer_writes>>

\* connect_to_peers returns, __init__ line 55 logs INIT, then run() is entered.
ConnectDone(m) ==
    /\ pc[m] = "connect"
    /\ peer_idx[m] > Len(peer_info[m])
    /\ log' = [log EXCEPT ![m] = Append(@, LogLine("INIT", logical_clock[m], <<>>))]
    /\ attempt' = [attempt EXCEPT ![m] = 0]
    /\ pc' = [pc EXCEPT ![m] = "loop"]
    /\ UNCHANGED <<config, peer_idx, logical_clock, msg_queue, peer_sockets,
                   log_open, ticks, depth_at_check, send_err, sent_to, server, backlog,
                   accept_thread, sock_out, sock_in, stream, recvHist,
                   peer_writes>>

\* ------------------------------------------------------------ accept thread
\* An accept loop that goes round again after accept raised.
AcceptAfterError(t) ==
    /\ accept_thread[t] \in {"running", "stopped"}
    /\ server[t] = "listening"
    /\ backlog[t] # <<>>
    /\ sock_in' = [sock_in EXCEPT ![<<Head(backlog[t]), t>>] = "open"]
    /\ backlog' = [backlog EXCEPT ![t] = Tail(@)]
    /\ UNCHANGED <<config, mainVars, msg_queue, server, accept_thread, sock_out,
                   stream, recvHist, peer_writes>>

\* accept_incoming: accept returns the oldest completed connection and a
\* receive_messages thread is started on it.
Accept(t) ==
    /\ accept_thread[t] = "running"
    /\ server[t] = "listening"
    /\ backlog[t] # <<>>
    /\ sock_in' = [sock_in EXCEPT ![<<Head(backlog[t]), t>>] = "open"]
    /\ backlog' = [backlog EXCEPT ![t] = Tail(@)]
    /\ UNCHANGED <<config, mainVars, msg_queue, server, accept_thread, sock_out,
                   stream, recvHist, peer_writes>>

\* accept_incoming: accept raises (the socket was closed, or the system call
\* failed); the except branch leaves the loop.
AcceptFail(t) ==
    /\ accept_thread[t] = "running"
    /\ accept_thread' = [accept_thread EXCEPT ![t] = "stopped"]
    /\ UNCHANGED <<config, mainVars, msg_queue, server, backlog, sock_out,
                   sock_in, stream, recvHist, peer_writes>>

\* ----------------------------------------------------------- receive thread
\* receive_messages: recv returns the first k buffered bytes, they decode to
\* an integer, which is put on the queue.
WorkerEnqueue(c) ==
    /\ role[c[2]] = "machine"
    /\ sock_in[c] = "open"
    /\ \E k \in 1..Min(Len(stream[c]), RecvSize) :
          LET chunk == SubSeq(stream[c], 1, k)
              d == Decode(Chars(chunk))
              item == [val |-> d.val, src |-> c[1], n |-> enq_n[c] + 1,
                       sent |-> {chunk[i].L : i \in 1..k}]
          IN  /\ d.ok
              /\ msg_queue' = [msg_queue EXCEPT ![c[2]] = QueuePut(@, item)]
              /\ stream' = [stream EXCEPT ![c] = SubSeq(@, k + 1, Len(@))]
              /\ last_chunk' = [last_chunk EXCEPT ![c] = Chars(chunk)]
    /\ enq_n' = [enq_n EXCEPT ![c] = @ + 1]
    /\ UNCHANGED <<config, mainVars, server, backlog, accept_thread, sock_out,
                   sock_in, deq_n, peer_writes>>

\* An abort that also takes the machine's accept loop down.
WorkerAbortStopsAccept(c) ==
    /\ role[c[2]] = "machine"
    /\ sock_in[c] = "open"
    /\ \E k \in 1..Min(Len(stream[c]), RecvSize) :
          /\ ~Decode(Chars(SubSeq(stream[c], 1, k))).ok
          /\ last_chunk' = [last_chunk EXCEPT ![c] = Chars(SubSeq(stream[c], 1, k))]
    /\ sock_in' = [sock_in EXCEPT ![c] = "closed"]
    /\ stream' = [stream EXCEPT ![c] = <<>>]
    /\ accept_thread' = [accept_thread EXCEPT ![c[2]] = "stopped"]
    /\ UNCHANGED <<config, mainVars, msg_queue, server, backlog, sock_out, enq_n,
                   deq_n, peer_writes>>

\* receive_messages: recv returns the first k buffered bytes, int() raises;
\* the except branch leaves the loop and sock.close() runs.
WorkerAbort(c) ==
    /\ role[c[2]] = "machine"
    /\ sock_in[c] = "open"
    /\ \E k \in 1..Min(Len(stream[c]), RecvSize) :
          LET chunk == SubSeq(stream[c], 1, k)
          IN  /\ ~Decode(Chars(chunk)).ok
              /\ last_chunk' = [last_chunk EXCEPT ![c] = Chars(chunk)]
    /\ sock_in' = [sock_in EXCEPT ![c] = "closed"]
    /\ stream' = [stream EXCEPT ![c] = <<>>]
    /\ UNCHANGED <<config, mainVars, msg_queue, server, backlog, accept_thread,
                   sock_out, enq_n, deq_n, peer_writes>>

\* receive_messages: recv returns b"" (the peer closed and all its bytes were
\* read); the loop is left and sock.close() runs.
WorkerEof(c) ==
    /\ role[c[2]] = "machine"
    /\ sock_in[c] = "open"
    /\ sock_out[c] = "closed"
    /\ stream[c] = <<>>
    /\ sock_in' = [sock_in EXCEPT ![c] = "closed"]
    /\ UNCHANGED <<config, mainVars, msg_queue, server, backlog, accept_thread,
                   sock_out, stream, recvHist, peer_writes>>

\* receive_messages: recv raises (the peer reset the connection, what it had
\* sent and was not read is gone); the except branch leaves the loop and
\* sock.close() runs.
WorkerReadError(c) ==
    /\ role[c[2]] = "machine"
    /\ sock_in[c] = "open"
    /\ sock_out[c] = "reset"
    /\ sock_in' = [sock_in EXCEPT ![c] = "closed"]
    /\ stream' = [stream EXCEPT ![c] = <<>>]
    /\ UNCHANGED <<config, mainVars, msg_queue, server, backlog, accept_thread,
                   sock_out, recvHist, peer_writes>>

\* ------------------------------------------------- run loop (main thread)
\* while (time.time() - start_time) < run_time, then `if not msg_queue.empty()`.
TickCheck(m) ==
    /\ pc[m] = "loop"
    /\ ticks[m] < MaxTicks
    /\ depth_at_check' = [depth_at_check EXCEPT ![m] = Len(msg_queue[m])]
    /\ pc' = [pc EXCEPT ![m] = IF QueueEmpty(msg_queue[m]) THEN "draw" ELSE "recv_get"]
    /\ UNCHANGED <<config, peer_idx, attempt, logical_clock, msg_queue,
                   peer_sockets, log, log_open, ticks, send_err, sent_to, server, backlog,
                   accept_thread, sock_out, sock_in, stream, recvHist,
                   peer_writes>>

\* their_clock = self.msg_queue.get() and the Lamport receive rule.
RecvGet(m) ==
    /\ pc[m] = "recv_get"
    /\ msg_queue[m] # <<>>
    /\ LET item == QueueFront(msg_queue[m])
       IN  /\ logical_clock' = [logical_clock EXCEPT ![m] = LamportReceive(@, item.val)]
           /\ deq_n' = [deq_n EXCEPT ![<<item.src, m>>] = item.n]
    /\ msg_queue' = [msg_queue EXCEPT ![m] = QueueRest(@)]
    /\ pc' = [pc EXCEPT ![m] = "recv_log"]
    /\ UNCHANGED <<config, peer_idx, attempt, peer_sockets, log, log_open, ticks,
                   depth_at_check, send_err, sent_to, server, backlog, accept_thread,
                   sock_out, sock_in, stream, enq_n, last_chunk, peer_writes>>

\* self.log_event("RECEIVE", queue_len=self.msg_queue.qsize()), then the sleep.
RecvLog(m) ==
    /\ pc[m] = "recv_log"
    /\ log' = [log EXCEPT ![m] =
                 Append(@, LogLine("RECEIVE", logical_clock[m], <<Len(msg_queue[m])>>))]
    /\ ticks' = [ticks EXCEPT ![m] = @ + 1]
    /\ sent_to' = [sent_to EXCEPT ![m] = {}]
    /\ send_err' = [send_err EXCEPT ![m] = {}]
    /\ depth_at_check' = [depth_at_check EXCEPT ![m] = 0]
    /\ pc' = [pc EXCEPT ![m] = "loop"]
    /\ UNCHANGED <<config, peer_idx, attempt, logical_clock, msg_queue,
                   peer_sockets, log_open, server, backlog, accept_thread,
                   sock_out, sock_in, stream, recvHist, peer_writes>>

\* A draw of 1 that sends on every socket.
SendTargets1Every(socks) == {Range(socks)}
\* r == 1: random.choice(list(self.peer_sockets.values())) if there is any.
SendTargets1(socks) == IF socks = <<>> THEN {{}} ELSE {{a} : a \in Range(socks)}
\* A draw of 2 that always takes the first socket.
SendTargets2First(socks) == IF socks = <<>> THEN {{}} ELSE {{socks[1]}}
\* r == 2: all_socks[1 % len(all_socks)] with two or more, else the only one.
SendTargets2(socks) ==
    IF Len(socks) >= 2 THEN {{socks[(1 % Len(socks)) + 1]}}
    ELSE IF socks # <<>> THEN {{socks[1]}}
    ELSE {{}}
\* r == 3: every socket of the dict.
SendTargets3(socks) == {Range(socks)}

\* An except branch that forgets the peers whose send raised.
SocketsWithoutFailed(socks, failed) == SelectSeq(socks, LAMBDA a : a \notin failed)
\* send_message's except branch only prints: the dict is left as it is.
SocketsAfterSend(socks, failed) == socks

\* What sock.sendall can do on connection c: the bytes are buffered for the
\* peer; or the peer's end is gone and the call raises, or the kernel still
\* takes the bytes and drops them.
SendOutcomes(c) ==
    IF sock_in[c] \in {"closed", "reset"} THEN {"error", "dropped"} ELSE {"buffered"}

\* One non-receive tick: the clock is advanced, send_message runs on every
\* target socket, the event is logged, then the sleep.
LocalTick(m, kind, targets) ==
    LET L == AdvanceLocal(logical_clock[m])
        bytes == Tagged(Encode(L, m), L)
        conn(a) == <<m, ListenerAt(a)>>
        buffers(c) == role[c[2]] = "machine"
    IN  /\ \A a \in targets :
              buffers(conn(a)) => Len(stream[conn(a)]) + Len(bytes) <= MaxBuf
        /\ \E oc \in [targets -> {"error", "dropped", "buffered"}] :
              /\ \A a \in targets : oc[a] \in SendOutcomes(conn(a))
              /\ stream' = [c \in Conns |->
                              IF c[1] = m /\ buffers(c) /\ \E a \in targets :
                                                conn(a) = c /\ oc[a] = "buffered"
                              THEN stream[c] \o bytes
                              ELSE stream[c]]
              /\ send_err' = [send_err EXCEPT ![m] = {a \in targets : oc[a] = "error"}]
              /\ peer_sockets' = [peer_sockets EXCEPT ![m] =
                                    SocketsAfterSend(@, {a \in targets : oc[a] = "error"})]
        /\ sent_to' = [sent_to EXCEPT ![m] = {<<a, Chars(bytes)>> : a \in targets}]
        /\ logical_clock' = [logical_clock EXCEPT ![m] = L]
        /\ log' = [log EXCEPT ![m] = Append(@, LogLine(kind, L, <<>>))]
        /\ ticks' = [ticks EXCEPT ![m] = @ + 1]
        /\ depth_at_check' = [depth_at_check EXCEPT ![m] = 0]
        /\ pc' = [pc EXCEPT ![m] = "loop"]
        /\ UNCHANGED <<config, peer_idx, attempt, msg_queue, log_open, server,
                       backlog, accept_thread, sock_out, sock_in, recvHist,
                       peer_writes>>

\* The draws of random.randint(1, 10) that take the else branch.
InternalDraws == 4..10

TickSend1(m) ==
    /\ pc[m] = "draw"
    /\ \E targets \in SendTargets1(peer_sockets[m]) : LocalTick(m, "SEND(1)", targets)

TickSend2(m) ==
    /\ pc[m] = "draw"
    /\ \E targets \in SendTargets2(peer_sockets[m]) : LocalTick(m, "SEND(2)", targets)

TickSend3(m) ==
    /\ pc[m] = "draw"
    /\ \E targets \in SendTargets3(peer_sockets[m]) : LocalTick(m, "SEND(3)", targets)

TickInternal(m) ==
    /\ pc[m] = "draw"
    /\ \E r \in InternalDraws : LocalTick(m, "INTERNAL", {})

\* for sock in self.peer_sockets.values(): sock.close()
ClosedByShutdown(socks) == Range(socks)

\* A shutdown that also closes the accepted sockets their workers own.
ShutdownClosesAccepted(m) ==
    /\ pc[m] = "loop"
    /\ log' = [log EXCEPT ![m] = Append(@, LogLine("SHUTDOWN", logical_clock[m], <<>>))]
    /\ log_open' = [log_open EXCEPT ![m] = FALSE]
    /\ server' = [server EXCEPT ![m] = "closed"]
    /\ backlog' = [backlog EXCEPT ![m] = <<>>]
    /\ sock_in' = [c \in Conns |->
                     IF c[2] = m /\ sock_in[c] = "pending" THEN "reset"
                     ELSE IF c[2] = m /\ sock_in[c] = "open" THEN "closed"
                     ELSE sock_in[c]]
    /\ sock_out' = [c \in Conns |->
                      IF c[1] = m /\ ListenAddr(c[2]) \in ClosedByShutdown(peer_sockets[m])
                      THEN "closed" ELSE sock_out[c]]
    /\ pc' = [pc EXCEPT ![m] = "done"]
    /\ UNCHANGED <<config, peer_idx, attempt, logical_clock, msg_queue,
                   peer_sockets, ticks, depth_at_check, send_err, sent_to, accept_thread,
                   stream, recvHist, peer_writes>>

\* The loop guard fails: run_time has expired, shutdown() runs.  Connections
\* still waiting in the listening socket's backlog are reset by its close.
Shutdown(m) ==
    /\ pc[m] = "loop"
    /\ log' = [log EXCEPT ![m] = Append(@, LogLine("SHUTDOWN", logical_clock[m], <<>>))]
    /\ log_open' = [log_open EXCEPT ![m] = FALSE]
    /\ server' = [server EXCEPT ![m] = "closed"]
    /\ backlog' = [backlog EXCEPT ![m] = <<>>]
    /\ sock_in' = [c \in Conns |->
                     IF c[2] = m /\ sock_in[c] = "pending" THEN "reset" ELSE sock_in[c]]
    /\ sock_out' = [c \in Conns |->
                      IF c[1] = m /\ ListenAddr(c[2]) \in ClosedByShutdown(peer_sockets[m])
                      THEN "closed" ELSE sock_out[c]]
    /\ pc' = [pc EXCEPT ![m] = "done"]
    /\ UNCHANGED <<config, peer_idx, attempt, logical_clock, msg_queue,
                   peer_sockets, ticks, depth_at_check, send_err, sent_to, accept_thread,
                   stream, recvHist, peer_writes>>

\* ------------------------------------------------- remote peers (environment)
\* A remote peer starts listening at its address.
PeerListen(p) ==
    /\ role[p] # "machine"
    /\ server[p] = "none"
    /\ server' = [server EXCEPT ![p] = "listening"]
    /\ UNCHANGED <<config, mainVars, msg_queue, backlog, accept_thread, sock_out,
                   sock_in, stream, recvHist, peer_writes>>

\* A remote peer connects to a machine's listening socket.
PeerConnect(p, t) ==
    /\ role[p] = "peer" /\ role[t] = "machine"
    /\ server[t] = "listening"
    /\ sock_out[<<p, t>>] = "none"
    /\ sock_out' = [sock_out EXCEPT ![<<p, t>>] = "open"]
    /\ sock_in' = [sock_in EXCEPT ![<<p, t>>] = "pending"]
    /\ backlog' = [backlog EXCEPT ![t] = Append(@, p)]
    /\ UNCHANGED <<config, mainVars, msg_queue, server, accept_thread, stream,
                   recvHist, peer_writes>>

\* A remote peer writes the characters w.chars on its connection to t, whose
\* buffers hold cap bytes.
PeerWrite(p, t, w, cap) ==
    /\ role[p] = "peer"
    /\ sock_out[<<p, t>>] = "open"
    /\ sock_in[<<p, t>>] \in {"pending", "open"}
    /\ peer_writes[<<p, t>>] < MaxPeerWrites
    /\ Len(stream[<<p, t>>]) + Len(w.chars) <= cap
    /\ stream' = [stream EXCEPT ![<<p, t>>] = @ \o Tagged(w.chars, w.L)]
    /\ peer_writes' = [peer_writes EXCEPT ![<<p, t>>] = @ + 1]
    /\ UNCHANGED <<config, mainVars, msg_queue, server, backlog, accept_thread,
                   sock_out, sock_in, recvHist>>

\* What a remote peer writes next to a machine: the record of its clock, which
\* its writes so far have advanced.
SmallWrites(p, t) ==
    LET v == 3 + peer_writes[<<p, t>>] IN {[chars |-> Encode(v, p), L |-> v]}

PeerSend(p, t) == \E w \in SmallWrites(p, t) : PeerWrite(p, t, w, MaxBuf)

\* The characters a byte string that is no record is made of.
RawAlphabet == {"7", ":", "x", " ", "-"}
RawStrings == UNION {[1..n -> RawAlphabet] : n \in 1..MaxRaw}
\* What a remote peer writes first in the wire scenario: the record of any
\* clock value, or any byte string.
WireWrites(p) ==
    {[chars |-> Encode(v, p), L |-> v] : v \in 0..MaxEncClock}
        \cup {[chars |-> r, L |-> 0 - 1] : r \in RawStrings}

PeerSendAny(p, t) ==
    /\ role[p] = "peer"
    /\ sock_out[<<p, t>>] = "open"
    /\ peer_writes[<<p, t>>] < MaxPeerWrites
    /\ \E w \in IF peer_writes[<<p, t>>] = 0 THEN WireWrites(p) ELSE SmallWrites(p, t) :
          PeerWrite(p, t, w, WireBuf)

\* A remote peer closes its connection to t.
PeerHangup(p, t) ==
    /\ role[p] = "peer"
    /\ sock_out[<<p, t>>] = "open"
    /\ sock_out' = [sock_out EXCEPT ![<<p, t>>] = "closed"]
    /\ UNCHANGED <<config, mainVars, msg_queue, server, backlog, accept_thread,
                   sock_in, stream, recvHist, peer_writes>>

\* A remote peer resets its connection to t (it dies, or closes with bytes
\* unread).
PeerReset(p, t) ==
    /\ role[p] = "peer"
    /\ sock_out[<<p, t>>] = "open"
    /\ sock_out' = [sock_out EXCEPT ![<<p, t>>] = "reset"]
    /\ UNCHANGED <<config, mainVars, msg_queue, server, backlog, accept_thread,
                   sock_in, stream, recvHist, peer_writes>>

\* A remote peer closes its end of the connection machine m made to it (or
\* dies): the socket m holds is dead from now on.
PeerGone(p, m) ==
    /\ role[p] # "machine"
    /\ sock_in[<<m, p>>] = "pending"
    /\ sock_in' = [sock_in EXCEPT ![<<m, p>>] = "closed"]
    /\ UNCHANGED <<config, mainVars, msg_queue, server, backlog, accept_thread,
                   sock_out, stream, recvHist, peer_writes>>

\* ---------------------------------------------------------- specifications
ConstructorNext ==
    \/ \E m \in Machines : Start(m)
    \/ \E m \in Machines : ConnectSkipSelf(m)
    \/ \E m \in Machines : ConnectBegin(m)
    \/ \E m \in Machines : ConnectOk(m)
    \/ \E m \in Machines : ConnectFail(m)
    \/ \E m \in Machines : ConnectDone(m)

RunNext ==
    \/ \E m \in Machines : Accept(m)
    \/ \E m \in Machines : AcceptFail(m)
    \/ \E c \in Conns : WorkerEnqueue(c)
    \/ \E c \in Conns : WorkerAbort(c)
    \/ \E c \in Conns : WorkerEof(c)
    \/ \E c \in Conns : WorkerReadError(c)
    \/ \E m \in Machines : TickCheck(m)
    \/ \E m \in Machines : RecvGet(m)
    \/ \E m \in Machines : RecvLog(m)
    \/ \E m \in Machines : TickSend1(m)
    \/ \E m \in Machines : TickSend2(m)
    \/ \E m \in Machines : TickSend3(m)
    \/ \E m \in Machines : TickInternal(m)
    \/ \E m \in Machines : Shutdown(m)

DialNext ==
    \/ \E p, t \in Machines : PeerConnect(p, t)
    \/ \E p, t \in Machines : PeerSend(p, t)
    \/ \E p, t \in Machines : PeerHangup(p, t)
    \/ \E p, t \in Machines : PeerReset(p, t)

\* One constructed machine running among remote endpoints.
Next == RunNext \/ DialNext \/ \E p, m \in Machines : PeerGone(p, m)
Spec == Init /\ [][Next]_vars

\* A step of machine m's run loop.
LoopStep(m) ==
    \/ TickCheck(m)
    \/ RecvGet(m)
    \/ RecvLog(m)
    \/ TickSend1(m)
    \/ TickSend2(m)
    \/ TickSend3(m)
    \/ TickInternal(m)
\* The main thread is scheduled while run_time has not expired: the sleep at
\* the end of a tick returns and the next iteration runs.
SpecFair == Spec /\ \A m \in Machines : WF_vars(LoopStep(m))

\* One constructed machine fed by two remote peers; its draws are internal
\* events.
FanInNext ==
    \/ \E m \in Machines : Accept(m)
    \/ \E c \in Conns : WorkerEnqueue(c)
    \/ \E c \in Conns : WorkerAbort(c)
    \/ \E m \in Machines : TickCheck(m)
    \/ \E m \in Machines : RecvGet(m)
    \/ \E m \in Machines : RecvLog(m)
    \/ \E m \in Machines : TickInternal(m)
    \/ \E m \in Machines : Shutdown(m)
    \/ \E p, t \in Machines : PeerSend(p, t)
SpecFanIn == InitFanIn /\ [][FanInNext]_vars

\* One constructed machine fed by two remote peers that can fail; its draws
\* are internal events.
IsolationNext ==
    \/ \E m \in Machines : Accept(m)
    \/ \E c \in Conns : WorkerEnqueue(c)
    \/ \E c \in Conns : WorkerAbort(c)
    \/ \E c \in Conns : WorkerReadError(c)
    \/ \E m \in Machines : TickCheck(m)
    \/ \E m \in Machines : RecvGet(m)
    \/ \E m \in Machines : RecvLog(m)
    \/ \E m \in Machines : TickInternal(m)
    \/ \E p, t \in Machines : PeerSend(p, t)
    \/ \E p, t \in Machines : PeerReset(p, t)
SpecIsolation == InitFanIn /\ [][IsolationNext]_vars

\* The receive path of one machine, fed any bytes by one remote peer.
WireNext ==
    \/ \E m \in Machines : Accept(m)
    \/ \E c \in Conns : WorkerEnqueue(c)
    \/ \E c \in Conns : WorkerAbort(c)
    \/ \E c \in Conns : WorkerEof(c)
    \/ \E p, t \in Machines : PeerSendAny(p, t)
    \/ \E p, t \in Machines : PeerHangup(p, t)
SpecWire == InitWire /\ [][WireNext]_vars

\* The construction of one machine while its peers come up.
StartupNext ==
    \/ ConstructorNext
    \/ \E m \in Machines : AcceptFail(m)
    \/ \E p \in Machines : PeerListen(p)
    \/ \E m \in Machines : Shutdown(m)
SpecStartup == InitStartup /\ [][StartupNext]_vars
\* The main thread is scheduled: connect returns or raises, sleep(1) returns.
SpecStartupFair == SpecStartup /\ WF_vars(ConstructorNext)

\* The construction of one machine from any peer list, and its broadcast
\* ticks.
PeerListsNext ==
    \/ ConstructorNext
    \/ \E p \in Machines : PeerListen(p)
    \/ \E m \in Machines : TickCheck(m)
    \/ \E m \in Machines : TickSend3(m)
SpecPeerLists == InitPeerLists /\ [][PeerListsNext]_vars

\* Two constructed machines that are each other's peer; their draws are 1 or
\* an internal event.
PairNext ==
    \/ \E m \in Machines : Accept(m)
    \/ \E c \in Conns : WorkerEnqueue(c)
    \/ \E c \in Conns : WorkerAbort(c)
    \/ \E c \in Conns : WorkerEof(c)
    \/ \E m \in Machines : TickCheck(m)
    \/ \E m \in Machines : RecvGet(m)
    \/ \E m \in Machines : RecvLog(m)
    \/ \E m \in Machines : TickSend1(m)
    \/ \E m \in Machines : TickInternal(m)
    \/ \E m \in Machines : Shutdown(m)
SpecPair == InitPair /\ [][PairNext]_vars

\* ------------------------------------------------- a cluster, framed reads
\* Three machines launched with the same --peers list; each skips itself.
ThreeMachines ==
    /\ role = [m \in Machines |-> "machine"]
    /\ peer_info = [m \in Machines |-> PeersOfOne]

\* All three were constructed; each reached the next one round the ring and
\* gave up the other.
InitCluster == ThreeMachines /\ Constructed({<<1, 2>>, <<2, 3>>, <<3, 1>>})

\* The bytes of the oldest sendall still buffered on a connection.
OldestRecord(s) == SelectSeq(s, LAMBDA b : b.L = s[1].L)

\* receive_messages when recv returns the bytes of one sendall, no fewer and
\* no more.
WorkerEnqueueRecord(c) ==
    /\ WorkerEnqueue(c)
    /\ last_chunk'[c] = Chars(OldestRecord(stream[c]))

\* The run loops and receive paths of the cluster while run_time lasts.
ClusterNext ==
    \/ \E m \in Machines : Accept(m)
    \/ \E c \in Conns : WorkerEnqueueRecord(c)
    \/ \E m \in Machines : TickCheck(m)
    \/ \E m \in Machines : RecvGet(m)
    \/ \E m \in Machines : RecvLog(m)
    \/ \E m \in Machines : TickSend1(m)
    \/ \E m \in Machines : TickSend2(m)
    \/ \E m \in Machines : TickSend3(m)
    \/ \E m \in Machines : TickInternal(m)
SpecCluster == InitCluster /\ [][ClusterNext]_vars

\* ------------------------------------------------------------------ claims
SendKinds == {"SEND(1)", "SEND(2)", "SEND(3)"}
Last(s) == s[Len(s)]
\* The step of machine m that dequeues one record and updates the clock.
ReceiveStep(m) == pc[m] = "recv_get" /\ pc'[m] = "recv_log"
\* The step of machine m that performs a send or internal tick.
LocalStep(m) == pc[m] = "draw" /\ pc'[m] = "loop"

\* C1: whenever the loop processes a dequeued record with value v while the
\* clock holds c, the clock afterwards is exactly max(c, v) + 1, hence greater
\* than both c and v.
C1_ReceiveRule ==
    [][\A m \in Machines :
          ReceiveStep(m) =>
             LET c == logical_clock[m]
                 v == Head(msg_queue[m]).val
             IN  /\ logical_clock'[m] = (IF c >= v THEN c ELSE v) + 1
                 /\ logical_clock'[m] > c
                 /\ logical_clock'[m] > v]_vars

\* A second receive is under way whose record does not exceed the clock.
C1_Witness ==
    \E m \in Machines :
       /\ pc[m] = "recv_log"
       /\ Len(log[m]) = 2 /\ log[m][2].kind = "RECEIVE"
       /\ logical_clock[m] = log[m][2].L + 1

\* C2: the clock is a non-negative integer that never decreases; the step of
\* each tick that touches it increases it, and a non-receive tick increases it
\* by exactly 1 whether or not a send happens or succeeds.
C2_Monotone ==
    [][\A m \in Machines :
          /\ logical_clock[m] \in Nat /\ logical_clock'[m] \in Nat
          /\ logical_clock'[m] >= logical_clock[m]
          /\ ReceiveStep(m) => logical_clock'[m] > logical_clock[m]
          /\ LocalStep(m) => logical_clock'[m] = logical_clock[m] + 1
          /\ ticks'[m] = ticks[m] + 1 =>
                /\ Last(log'[m]).L = logical_clock'[m]
                /\ Last(log'[m]).L > Last(log[m]).L]_vars

\* Two ticks have run, the last of them a send that raised.
C2_Witness ==
    \E m \in Machines :
       /\ ticks[m] = 2
       /\ Last(log[m]).kind \in SendKinds
       /\ send_err[m] # {}
       /\ logical_clock[m] = 2

\* C4: a tick that finds the queue non-empty takes the receive branch, and a
\* send or internal action is performed only in a tick whose check found the
\* queue empty, whatever the receive workers enqueue meanwhile.
C4_ReceiveFirst ==
    [][\A m \in Machines :
          /\ (pc[m] = "loop" /\ pc'[m] \in {"draw", "recv_get"}) =>
                /\ depth_at_check'[m] = Len(msg_queue[m])
                /\ pc'[m] = "recv_get" <=> Len(msg_queue[m]) > 0
          /\ (Len(log'[m]) > Len(log[m])
                /\ Last(log'[m]).kind \in SendKinds \cup {"INTERNAL"}) =>
                pc[m] = "draw" /\ depth_at_check[m] = 0]_vars

\* The check found two records queued and the receive branch was taken.
C4_Witness ==
    \E m \in Machines : pc[m] = "recv_get" /\ depth_at_check[m] = 2

\* C10: when a send on a dead connection raises during a send tick, the tick
\* still advances the clock by 1 and writes its SEND line, the loop goes on,
\* and the connection stays in the dict, which no tick ever changes.
C10_SendFailureSwallowed ==
    [][\A m \in Machines :
          /\ (LocalStep(m) /\ send_err'[m] # {}) =>
                /\ logical_clock'[m] = logical_clock[m] + 1
                /\ Len(log'[m]) = Len(log[m]) + 1
                /\ Last(log'[m]).kind \in SendKinds
                /\ Last(log'[m]).L = logical_clock[m] + 1
                /\ ticks'[m] = ticks[m] + 1
                /\ peer_sockets'[m] = peer_sockets[m]
          /\ send_err'[m] \subseteq Range(peer_sockets'[m])
          /\ pc[m] \in {"loop", "draw", "recv_get", "recv_log"} =>
                peer_sockets'[m] = peer_sockets[m]]_vars

\* A send raised in the first tick and the same peer was sent to again in the
\* second.
C10_Witness ==
    \E m \in Machines :
       /\ ticks[m] = 2
       /\ send_err[m] # {}
       /\ log[m][2].kind \in SendKinds
       /\ Last(log[m]).kind = "SEND(3)"
       /\ Len(peer_sockets[m]) = 2

\* C3: the value delivered to a mutual peer is the sender's clock after the
\* increment of its send tick (the L of its SEND line); processing it sets the
\* receiver's clock to max(c, value) + 1, above the L of the SEND that caused
\* it, and the receiver's log gains exactly one RECEIVE line with that L.
C3_LamportCondition ==
    [][\A m \in Machines :
          /\ ReceiveStep(m) =>
                LET item == Head(msg_queue[m])
                    c == logical_clock[m]
                IN  /\ item.sent = {item.val}
                    /\ logical_clock'[m] = (IF c >= item.val THEN c ELSE item.val) + 1
                    /\ \A L \in item.sent : logical_clock'[m] > L
          /\ (pc[m] = "recv_log" /\ pc'[m] = "loop") =>
                /\ Len(log'[m]) = Len(log[m]) + 1
                /\ Last(log'[m]).kind = "RECEIVE"
                /\ Last(log'[m]).L = logical_clock[m]]_vars

\* C5: with several workers enqueuing and the loop as sole consumer, the
\* records of one connection still queued are exactly those enqueued and not
\* yet dequeued, in enqueue order: none dropped, none dequeued twice.
C5_QueueIntegrity ==
    \A m, p \in Machines :
       LET c == <<p, m>>
           mine == SelectSeq(msg_queue[m], LAMBDA it : it.src = p)
       IN  /\ deq_n[c] <= enq_n[c]
           /\ Len(mine) = enq_n[c] - deq_n[c]
           /\ \A i \in 1..Len(mine) : mine[i].n = deq_n[c] + i

\* One record of each of two connections was dequeued, and the second records
\* of both are queued behind each other.
C5_Witness ==
    \E m, p, q \in Machines :
       /\ p # q
       /\ deq_n[<<p, m>>] = 1 /\ deq_n[<<q, m>>] = 1
       /\ Len(msg_queue[m]) = 2
       /\ msg_queue[m][1].src = p /\ msg_queue[m][1].n = 2
       /\ msg_queue[m][2].src = q /\ msg_queue[m][2].n = 2

\* Lines of the log of machine m of the given kind.
CountKind(m, kind) == Cardinality({i \in 1..Len(log[m]) : log[m][i].kind = kind})
\* The log, clock, tick count and queue front of machine m are left alone.
NoTick(m) ==
    /\ pc'[m] = "done"
    /\ logical_clock'[m] = logical_clock[m]
    /\ log'[m] = log[m]
    /\ ticks'[m] = ticks[m]
    /\ sent_to'[m] = sent_to[m]
    /\ Len(msg_queue'[m]) >= Len(msg_queue[m])
    /\ SubSeq(msg_queue'[m], 1, Len(msg_queue[m])) = msg_queue[m]
    /\ \A t \in Machines : Len(stream'[<<m, t>>]) <= Len(stream[<<m, t>>])
ShutdownLogged(m) == CountKind(m, "SHUTDOWN") = 1 /\ Last(log[m]).kind = "SHUTDOWN"

\* C6: once the loop guard has failed and shutdown has run, every connection
\* the machine owns, dialled or accepted, is closed, the log holds exactly one
\* SHUTDOWN line and it is the last, and no further tick runs: no clock change,
\* send, dequeue or tick log line.
C6_AllOwnedClosed ==
    [][\A m \in Machines :
          /\ pc'[m] = "done" =>
                /\ \A t \in Machines : sock_out'[<<m, t>>] # "open"
                /\ \A p \in Machines : sock_in'[<<p, m>>] # "open"
                /\ server'[m] = "closed"
                /\ ShutdownLogged(m)'
          /\ pc[m] = "done" => NoTick(m)]_vars

\* The step of machine m's main thread inside connect_to_peers' retry loop.
AttemptStep(m) ==
    pc[m] = "try" /\ (pc'[m] # pc[m] \/ attempt'[m] # attempt[m])

\* C7: connect_to_peers makes at most 5 attempts per peer; an attempt made
\* while the peer listens succeeds and puts the peer in the dict; a fifth
\* failed attempt leaves the peer absent; nothing outside the retry loop ever
\* changes the dict; and the constructor completes: INIT is logged and the
\* loop is reached.
C7_BoundedRetry ==
    /\ [][\A m \in Machines :
             /\ attempt'[m] <= 5
             /\ AttemptStep(m) =>
                   LET addr == peer_info[m][peer_idx[m]]
                       t == ListenerAt(addr)
                   IN  IF server[t] = "listening"
                       THEN /\ addr \in Range(peer_sockets'[m])
                            /\ sock_out'[<<m, t>>] = "open"
                            /\ peer_idx'[m] = peer_idx[m] + 1
                            /\ pc'[m] = "connect"
                       ELSE /\ peer_sockets'[m] = peer_sockets[m]
                            /\ IF attempt[m] < 5
                               THEN /\ attempt'[m] = attempt[m] + 1
                                    /\ pc'[m] = "try"
                                    /\ peer_idx'[m] = peer_idx[m]
                               ELSE /\ addr \notin Range(peer_sockets'[m])
                                    /\ peer_idx'[m] = peer_idx[m] + 1
                                    /\ pc'[m] = "connect"
             /\ pc[m] # "try" => peer_sockets'[m] = peer_sockets[m]
             /\ (pc[m] = "connect" /\ pc'[m] = "loop") =>
                   log'[m] = <<[kind |-> "INIT", L |-> 0, queue |-> <<>>]>>]_vars
    /\ \A m \in Machines : role[m] = "machine" => <>(pc[m] = "loop")

\* The first remote peer was reached at the third attempt, after it started
\* to listen, and the constructor has moved on to the next peer.
C7_Witness ==
    \E m \in Machines :
       /\ pc[m] = "connect"
       /\ attempt[m] = 3
       /\ peer_idx[m] = 3
       /\ peer_sockets[m] = <<ListenAddr(2)>>

\* A worker took bytes of connection c off its stream: recv returned a chunk.
ReadStep(c) == Len(stream'[c]) < Len(stream[c])
\* The positions of the chunk that hold no blank.
Inked(ch) == {i \in 1..Len(ch) : ch[i] # " "}
\* The text of a chunk before its first ':', surrounding blanks removed.
FieldBeforeColon(ch) ==
    LET lo == CHOOSE i \in Inked(ch) : \A j \in Inked(ch) : i <= j
        hi == CHOOSE i \in Inked(ch) : \A j \in Inked(ch) : i >= j
        colons == {i \in lo..hi : ch[i] = ":"}
        stop == IF colons = {} THEN hi
                ELSE (CHOOSE i \in colons : \A j \in colons : i <= j) - 1
        raw == SubSeq(ch, lo, stop)
    IN  IF Inked(ch) = {} \/ Inked(raw) = {} THEN <<>>
        ELSE SubSeq(raw, CHOOSE i \in Inked(raw) : \A j \in Inked(raw) : i <= j,
                         CHOOSE i \in Inked(raw) : \A j \in Inked(raw) : i >= j)
\* A decimal integer literal: an optional sign, then one digit or more.
IsIntLiteral(f) ==
    \E sign \in 0..1 :
       /\ Len(f) > sign
       /\ sign = 1 => f[1] \in {"-", "+"}
       /\ \A i \in (sign + 1)..Len(f) :
             f[i] \in {"0", "1", "2", "3", "4", "5", "6", "7", "8", "9"}
Colons(ch) == {i \in 1..Len(ch) : ch[i] = ":"}
\* Two records in one chunk; a record cut by the read boundary.
MergedChunk(ch) == Cardinality(Colons(ch)) >= 2
TruncatedChunk(ch) ==
    ch # <<>> /\ (Colons(ch) = {} \/ ch[1] = ":" \/ ch[Len(ch)] = ":")

\* C8: whenever a read returns a chunk with a non-numeric first field, or two
\* records merged into one chunk, or a record truncated by the read boundary,
\* the worker closes the connection and enqueues nothing for that chunk.
C8_AbortOnPartial ==
    [][\A c \in Conns :
          (/\ ReadStep(c)
           /\ \/ ~IsIntLiteral(FieldBeforeColon(last_chunk'[c]))
              \/ MergedChunk(last_chunk'[c])
              \/ TruncatedChunk(last_chunk'[c])) =>
             /\ sock_in'[c] = "closed"
             /\ msg_queue' = msg_queue
             /\ enq_n' = enq_n]_vars

\* C9: a record "c:s" written by a send and returned whole by one read is
\* decoded to exactly c, and c is the value put on the queue.
C9_RoundTrip ==
    [][\A c \in Conns :
          ReadStep(c) =>
             \A v \in 0..MaxEncClock, s \in Machines :
                last_chunk'[c] = Encode(v, s) =>
                   /\ sock_in'[c] = "open"
                   /\ Len(msg_queue'[c[2]]) = Len(msg_queue[c[2]]) + 1
                   /\ SubSeq(msg_queue'[c[2]], 1, Len(msg_queue[c[2]])) = msg_queue[c[2]]
                   /\ Last(msg_queue'[c[2]]).val = v]_vars

\* The three-digit record of the largest clock value was read whole and its
\* value is the newest item of the queue.
C9_Witness ==
    \E c \in Conns :
       /\ last_chunk[c] = <<"1", "2", "0", ":", "3">>
       /\ enq_n[c] >= 1
       /\ msg_queue[c[2]] # <<>>
       /\ Last(msg_queue[c[2]]).val = 120

\* The worker of connection c fails: it closes the connection it serves while
\* the connection's peer has not closed in order.
WorkerFails(c) ==
    sock_in[c] = "open" /\ sock_in'[c] = "closed" /\ sock_out[c] # "closed"
\* C11: a decode or read failure on one connection ends only that
\* connection's worker and closes only that connection: the other connections,
\* the queue, the clock, the dict, the listener and the loop's position are
\* left as they are (so the other workers go on as before), and afterwards
\* the listener can still accept and the loop still tick.
C11_FailureIsolated ==
    /\ [][\A c \in Conns :
             WorkerFails(c) =>
                /\ \A d \in Conns \ {c} :
                      /\ sock_in'[d] = sock_in[d]
                      /\ stream'[d] = stream[d]
                      /\ enq_n'[d] = enq_n[d]
                /\ sock_out' = sock_out
                /\ msg_queue' = msg_queue
                /\ logical_clock' = logical_clock
                /\ peer_sockets' = peer_sockets
                /\ log' = log /\ ticks' = ticks /\ pc' = pc
                /\ server' = server /\ backlog' = backlog
                /\ accept_thread' = accept_thread]_vars
    /\ [](\A c \in Conns :
             (sock_in[c] = "closed" /\ role[c[2]] = "machine") =>
                LET m == c[2]
                IN  /\ (backlog[m] # <<>> /\ pc[m] # "done") => ENABLED Accept(m)
                    /\ (pc[m] = "loop" /\ ticks[m] < MaxTicks) => ENABLED TickCheck(m))

\* One connection was closed on the rest of a record cut by the read boundary;
\* the other connection's worker has enqueued two records and the loop has
\* run two ticks.
C11_Witness ==
    \E c, d \in Conns :
       /\ c # d /\ c[2] = d[2]
       /\ sock_in[c] = "closed" /\ enq_n[c] = 1
       /\ last_chunk[c] # <<>> /\ Head(last_chunk[c]) = ":"
       /\ sock_in[d] = "open" /\ enq_n[d] = 2
       /\ ticks[c[2]] = 2

\* C12: an error from accept ends the accept loop and nothing else; from then
\* on no inbound connection of the machine is accepted, so no new worker
\* starts, while the loop can still tick and the workers already running are
\* left as they are.
C12_AcceptFailureIsolated ==
    /\ [][\A m \in Machines :
             /\ (accept_thread[m] = "running" /\ accept_thread'[m] = "stopped") =>
                   /\ \A c \in Conns : /\ sock_in'[c] = sock_in[c]
                                       /\ sock_out'[c] = sock_out[c]
                                       /\ stream'[c] = stream[c]
                                       /\ enq_n'[c] = enq_n[c]
                   /\ msg_queue' = msg_queue
                   /\ logical_clock' = logical_clock
                   /\ peer_sockets' = peer_sockets
                   /\ log' = log /\ ticks' = ticks /\ pc' = pc
                   /\ server' = server /\ backlog' = backlog
             /\ accept_thread[m] = "stopped" =>
                   /\ accept_thread'[m] = "stopped"
                   /\ \A p \in Machines :
                         sock_in[<<p, m>>] # "open" => sock_in'[<<p, m>>] # "open"]_vars
    /\ [](\A m \in Machines :
             (accept_thread[m] = "stopped" /\ pc[m] = "loop" /\ ticks[m] < MaxTicks) =>
                ENABLED TickCheck(m))

\* The accept loop has ended with the machine running; the worker of the
\* connection accepted before has enqueued two records since it started and
\* the loop has run two ticks.
C12_Witness ==
    \E m \in Machines :
       /\ accept_thread[m] = "stopped"
       /\ pc[m] = "loop" /\ ticks[m] = 2
       /\ \E p \in Machines : sock_in[<<p, m>>] = "open" /\ enq_n[<<p, m>>] = 2

\* The items of machine m's queue that came over connection <<p, m>>.
ItemsOf(q, p) == SelectSeq(q, LAMBDA it : it.src = p)

\* C13: a worker closes its connection only from the open state, and only
\* when a read returned zero bytes (the peer closed and everything was read),
\* when the read raised, or when the chunk read does not decode; once closed
\* the connection stays closed and its worker reads and enqueues nothing more;
\* a dialled connection is closed only by shutdown, from the open state, and
\* stays closed: no owner closes a connection twice.
C13_WorkerClosesOnce ==
    /\ [][\A c \in Conns :
             /\ (role[c[2]] = "machine" /\ sock_in[c] = "open" /\ sock_in'[c] # "open") =>
                   /\ sock_in'[c] = "closed"
                   /\ pc' = pc
                   /\ \/ sock_out[c] = "closed" /\ stream[c] = <<>>
                      \/ sock_out[c] = "reset"
                      \/ /\ ReadStep(c)
                         /\ ~IsIntLiteral(FieldBeforeColon(last_chunk'[c]))
             /\ (role[c[2]] = "machine" /\ sock_in[c] = "closed") =>
                   /\ sock_in'[c] = "closed"
                   /\ enq_n'[c] = enq_n[c]
                   /\ last_chunk'[c] = last_chunk[c]
                   /\ stream'[c] = stream[c]
                   /\ Len(ItemsOf(msg_queue'[c[2]], c[1])) <= Len(ItemsOf(msg_queue[c[2]], c[1]))
             /\ (role[c[1]] = "machine" /\ sock_out[c] # "closed" /\ sock_out'[c] = "closed") =>
                   /\ sock_out[c] = "open"
                   /\ pc[c[1]] = "loop" /\ pc'[c[1]] = "done"
             /\ (role[c[1]] = "machine" /\ sock_out[c] = "closed") =>
                   sock_out'[c] = "closed"]_vars
    /\ [](\A c \in Conns :
             (role[c[2]] = "machine" /\ sock_in[c] = "open"
                 /\ sock_out[c] = "closed" /\ stream[c] = <<>>) => ENABLED WorkerEof(c))

\* A worker enqueued the records of its connection and closed it after the
\* peer closed, and the machine then shut down with both dialled connections.
C13_Witness ==
    \E c \in Conns :
       /\ sock_in[c] = "closed" /\ sock_out[c] = "closed"
       /\ enq_n[c] = 2
       /\ pc[c[2]] = "done"
       /\ Len(peer_sockets[c[2]]) = 2
       /\ \A a \in Range(peer_sockets[c[2]]) : sock_out[<<c[2], ListenerAt(a)>>] = "closed"

\* The connections of machine m written to in this step.
WrittenBy(m) == {c \in Conns : c[1] = m /\ stream'[c] # stream[c]}

\* C14: on an empty queue, a draw of 1 advances the clock and sends the new
\* value on exactly one socket of the dict (on none if it is empty) and logs
\* SEND(1); a draw of 3 advances the clock once, sends that value on every
\* socket of the dict and logs SEND(3); a draw of 4 to 10 advances the clock,
\* sends nothing and logs INTERNAL.
C14_Dispatch ==
    [][\A m \in Machines :
          LocalStep(m) =>
             LET kind == Last(log'[m]).kind
                 L == logical_clock[m] + 1
                 msg == Encode(L, m)
                 socks == Range(peer_sockets[m])
             IN  /\ depth_at_check[m] = 0
                 /\ logical_clock'[m] = L
                 /\ log'[m] = Append(log[m], [kind |-> kind, L |-> L, queue |-> <<>>])
                 /\ kind \in SendKinds \cup {"INTERNAL"}
                 /\ WrittenBy(m) \subseteq {<<m, ListenerAt(x[1])>> : x \in sent_to'[m]}
                 /\ \A c \in WrittenBy(m) : stream'[c] = stream[c] \o Tagged(msg, L)
                 /\ kind = "SEND(1)" =>
                       IF socks = {} THEN sent_to'[m] = {}
                       ELSE \E a \in socks : sent_to'[m] = {<<a, msg>>}
                 /\ kind = "SEND(3)" => sent_to'[m] = {<<a, msg>> : a \in socks}
                 /\ kind = "INTERNAL" => sent_to'[m] = {} /\ stream' = stream]_vars

\* After a SEND(1) tick the machine ran a SEND(3) tick that sent one message
\* to each of its two peers.
C14_Witness ==
    \E m \in Machines :
       /\ Len(log[m]) = 3
       /\ log[m][2].kind = "SEND(1)" /\ log[m][3].kind = "SEND(3)"
       /\ sent_to[m] = {<<ListenAddr(2), <<"2", ":", "1">> >>,
                        <<ListenAddr(3), <<"2", ":", "1">> >>}

\* C15: a draw of 2 advances the clock by 1 and logs SEND(2) in every case;
\* with two sockets or more in the dict exactly one message is sent, on the
\* second socket, which is not the first; with one socket it is sent on that
\* one; with none nothing is sent.
C15_SendTwo ==
    [][\A m \in Machines :
          (LocalStep(m) /\ Last(log'[m]).kind = "SEND(2)") =>
             LET L == logical_clock[m] + 1
                 msg == Encode(L, m)
                 socks == peer_sockets[m]
             IN  /\ logical_clock'[m] = L
                 /\ log'[m] = Append(log[m], [kind |-> "SEND(2)", L |-> L, queue |-> <<>>])
                 /\ Len(socks) >= 2 =>
                       /\ sent_to'[m] = {<<socks[2], msg>>}
                       /\ socks[2] # socks[1]
                 /\ Len(socks) = 1 => sent_to'[m] = {<<socks[1], msg>>}
                 /\ Len(socks) = 0 => sent_to'[m] = {}]_vars

\* A SEND(2) tick of a machine with two sockets has sent to the second peer.
C15_Witness ==
    \E m \in Machines :
       /\ Len(peer_sockets[m]) = 2
       /\ Last(log[m]).kind = "SEND(2)"
       /\ sent_to[m] = {<<ListenAddr(3), <<"1", ":", "1">> >>}

\* Records machine m has dequeued so far, over all its connections.
Dequeued(m) == deq_n[<<1, m>>] + deq_n[<<2, m>>] + deq_n[<<3, m>>]

\* C16: a tick that found the queue non-empty dequeues exactly one record; the
\* get after the check never finds the queue empty, whatever the workers
\* enqueue meanwhile; the RECEIVE line carries the clock after the update and
\* the depth read after the dequeue, at least the depth at the check minus 1.
C16_ReceiveBranch ==
    /\ [][\A m \in Machines :
             /\ ReceiveStep(m) =>
                   /\ msg_queue[m] # <<>>
                   /\ msg_queue'[m] = Tail(msg_queue[m])
                   /\ Dequeued(m)' = Dequeued(m) + 1
             /\ ~ReceiveStep(m) =>
                   /\ Dequeued(m)' = Dequeued(m)
                   /\ Len(msg_queue'[m]) >= Len(msg_queue[m])
             /\ (pc[m] = "recv_log" /\ pc'[m] = "loop") =>
                   /\ log'[m] = Append(log[m], [kind |-> "RECEIVE",
                                                L |-> logical_clock[m],
                                                queue |-> <<Len(msg_queue[m])>>])
                   /\ Len(msg_queue[m]) >= depth_at_check[m] - 1
                   /\ logical_clock[m] > Last(log[m]).L
                   /\ logical_clock'[m] = logical_clock[m]]_vars
    /\ [](\A m \in Machines :
             /\ pc[m] = "recv_get" =>
                   /\ depth_at_check[m] >= 1
                   /\ Len(msg_queue[m]) >= depth_at_check[m]
                   /\ ENABLED RecvGet(m)
             /\ Dequeued(m) = CountKind(m, "RECEIVE")
                                 + (IF pc[m] = "recv_log" THEN 1 ELSE 0))

\* One record was dequeued in a tick whose check saw one record, and two more
\* were enqueued by the workers before the RECEIVE line is written.
C16_Witness ==
    \E m \in Machines :
       /\ pc[m] = "recv_log"
       /\ depth_at_check[m] = 1
       /\ Len(msg_queue[m]) = 2
       /\ msg_queue[m][1].src # msg_queue[m][2].src

\* C17: only the run loop writes the clock and the log and takes items off
\* the queue: a step of the accept thread or of a worker leaves clock and log
\* alone and the queue as it was or with one item appended by the worker of an
\* open accepted connection; every clock change is the step of a tick and
\* every dequeue the receive step of a tick.
C17_SingleWriter ==
    [][\A m \in Machines :
          /\ pc'[m] = pc[m] =>
                /\ logical_clock'[m] = logical_clock[m]
                /\ log'[m] = log[m]
                /\ Len(msg_queue'[m]) >= Len(msg_queue[m])
          /\ logical_clock'[m] # logical_clock[m] => (ReceiveStep(m) \/ LocalStep(m))
          /\ log'[m] # log[m] => pc[m] \in {"recv_log", "draw", "loop"}
          /\ Len(msg_queue'[m]) < Len(msg_queue[m]) => ReceiveStep(m)
          /\ (msg_queue'[m] # msg_queue[m] /\ ~ReceiveStep(m)) =>
                \E p \in Machines :
                   /\ sock_in[<<p, m>>] = "open"
                   /\ enq_n'[<<p, m>>] = enq_n[<<p, m>>] + 1
                   /\ Len(msg_queue'[m]) = Len(msg_queue[m]) + 1
                   /\ SubSeq(msg_queue'[m], 1, Len(msg_queue[m])) = msg_queue[m]
                   /\ Last(msg_queue'[m]).src = p
          /\ (\E p \in Machines : sock_in'[<<p, m>>] # sock_in[<<p, m>>]
                                     /\ pc'[m] = pc[m]) =>
                msg_queue'[m] = msg_queue[m]]_vars

\* Both workers have enqueued, the accept thread has accepted both
\* connections, and the loop has processed two records with one still queued.
C17_Witness ==
    \E m \in Machines :
       /\ sock_in[<<2, m>>] = "open" /\ sock_in[<<3, m>>] = "open"
       /\ enq_n[<<2, m>>] >= 1 /\ enq_n[<<3, m>>] >= 1
       /\ CountKind(m, "RECEIVE") = 2
       /\ msg_queue[m] # <<>>

\* The main thread of machine m takes the next entry of its peer list.
EntryStep(m) ==
    /\ pc[m] = "connect" /\ peer_idx[m] <= Len(peer_info[m])
    /\ (pc'[m] # pc[m] \/ peer_idx'[m] # peer_idx[m])

Enqueued(m) == enq_n[<<1, m>>] + enq_n[<<2, m>>] + enq_n[<<3, m>>]

\* C19: while the loop keeps ticking every queued record is eventually
\* processed by a RECEIVE tick: a tick that finds n > 0 records is a RECEIVE
\* tick and leaves n - 1 of them plus what the workers add meanwhile, so n
\* records are gone after n ticks if nothing is enqueued; records still queued
\* when the run time has expired are never processed.
C19_QueueDrain ==
    /\ \A m \in Machines : \A n \in 1..MaxTicks :
          (Enqueued(m) >= n) ~>
             (CountKind(m, "RECEIVE") >= n \/ pc[m] = "done" \/ ticks[m] = MaxTicks)
    /\ [][\A m \in Machines :
             /\ (pc[m] = "loop" /\ pc'[m] # "loop" /\ msg_queue[m] # <<>>) =>
                   pc'[m] \in {"recv_get", "done"}
             /\ ReceiveStep(m) =>
                   /\ msg_queue[m] # <<>>
                   /\ msg_queue'[m] = Tail(msg_queue[m])
             /\ (pc[m] = "recv_log" /\ pc'[m] = "loop") =>
                   /\ Last(log'[m]).kind = "RECEIVE"
                   /\ ticks'[m] = ticks[m] + 1
             /\ pc[m] = "done" =>
                   /\ pc'[m] = "done"
                   /\ Dequeued(m)' = Dequeued(m)
                   /\ Len(msg_queue'[m]) >= Len(msg_queue[m])
                   /\ SubSeq(msg_queue'[m], 1, Len(msg_queue[m])) = msg_queue[m]]_vars

\* Two queued records were processed by two RECEIVE ticks in a row, a third
\* is still queued and the machine has shut down.
C19_Witness ==
    \E m \in Machines :
       /\ pc[m] = "done"
       /\ Len(log[m]) = 4
       /\ log[m][2].kind = "RECEIVE" /\ log[m][2].queue = <<1>>
       /\ log[m][3].kind = "RECEIVE"
       /\ msg_queue[m] # <<>>

TicksExecuted(m) == ticks[m] + (IF pc[m] = "recv_log" THEN 1 ELSE 0)
TotalTicks == TicksExecuted(1) + TicksExecuted(2) + TicksExecuted(3)
\* The clock values the machines held right after their send ticks.
SendClocks ==
    {log[p][i].L : <<p, i>> \in {x \in Machines \X (1..(3 * MaxTicks + 2)) :
                                   /\ x[2] <= Len(log[x[1]])
                                   /\ log[x[1]][x[2]].kind \in SendKinds}}
\* The records buffered on a connection, one per sendall.
InFlight(c) ==
    {SelectSeq(stream[c], LAMBDA b : b.L = L) : L \in {stream[c][i].L : i \in 1..Len(stream[c])}}

\* C21: in a cluster whose reads each deliver one whole record, every clock is
\* at least the number of ticks its machine has executed and at most the
\* number of ticks all machines have executed together, and every value
\* queued or in flight is the clock some machine held right after a send tick.
C21_ClockBounds ==
    /\ \A m \in Machines :
          /\ logical_clock[m] >= TicksExecuted(m)
          /\ logical_clock[m] <= TotalTicks
          /\ \A i \in 1..Len(msg_queue[m]) : msg_queue[m][i].val \in SendClocks
    /\ \A c \in Conns : \A rec \in InFlight(c) :
          /\ Decode(Chars(rec)).ok
          /\ Decode(Chars(rec)).val \in SendClocks

\* A clock that a receive has carried well past its machine's own two ticks
\* and close to the cluster's total: its value is in flight to the next
\* machine while another machine's send waits on a queue.
C21_Witness ==
    \E m \in Machines : \E c \in Conns :
       /\ c[1] = m
       /\ TicksExecuted(m) = 2
       /\ logical_clock[m] >= 5 /\ logical_clock[m] >= TotalTicks - 1
       /\ stream[c] # <<>>
       /\ Decode(Chars(stream[c])).val = logical_clock[m]
       /\ \E q \in Machines : msg_queue[q] # <<>> /\ msg_queue[q][1].val < logical_clock[m]

====
